---- MODULE Spec2Model ----
(***************************************************************************)
(* Swiple validation orchestration: the Runner (backend/app/core/runner.py) *)
(* together with the dataset and expectation endpoints and the validation   *)
(* repository, over the three document indices they share.                  *)
(***************************************************************************)
EXTENDS Integers, Sequences, FiniteSets, TLC

\* ---------------------------------------------------------------- bounds
\* Documents ever indexed per index, concurrent runs, and suite length.
MaxDatasets == 2
MaxExpectations == 2
MaxRuns == 2
MaxRequests == 3

\* ---------------------------------------------------------------- values
DatasourceIds == {"src_a", "src_b"}
\* a dataset_name, as its segments between the "." separators
DatasetNames == {<<"orders">>, <<"public", "orders">>}
NoRuntimeParameters == [k \in {} |-> ""]
RuntimeParameters == [schema |-> "public", query |-> "select 1"]
\* exp.type_map: the registry of implemented expectation types
type_map == {"expect_column_values_to_not_be_null",
             "expect_column_distinct_values_to_be_in_set"}
UnregisteredType == "expect_column_values_to_be_increasing"
\* a pass threshold in [0,1], in percent
Thresholds == {0, 50, 100}
KwargsKeys == {"objective", "mostly"}
RunIds == 1 .. MaxRuns
RequestIds == 1 .. MaxRequests
\* the keys a request may name: those the index can hold and one it never holds
DatasetKeys == 1 .. MaxDatasets + 1
ExpectationKeys == 1 .. MaxExpectations + 1

VARIABLES
    datasets,       \* DATASET_INDEX: key -> document
    expectations,   \* EXPECTATION_INDEX: key -> document
    validations,    \* VALIDATION_INDEX: id -> document
    runs,           \* run_dataset_validation invocations in flight
    dispatched,     \* calls received by action_dispatcher.dispatch
    proposed,       \* what create_dataset_suggestions returned last
    issued,         \* uuid4 values handed out, per use
    now,            \* the wall clock, in days
    returned,       \* what a call of the Runner or of the repository returned last
    inflight        \* dataset requests being handled, step by step

vars ==
    <<datasets, expectations, validations, runs, dispatched, proposed, issued, now, returned, inflight>>

\* ---------------------------------------------------------------- dicts
Dict(keys, values) == UNION {[K -> values] : K \in SUBSET keys}
EmptyDict == [k \in {} |-> 0]
\* d.get(k) is truthy: k is present and its value is neither None nor 0
Truthy(d, k) == k \in DOMAIN d /\ d[k] # 0
\* d[new] = d.pop(old)
Rename(d, old, new) ==
    [k \in (DOMAIN d \ {old}) \cup {new} |-> IF k = new THEN d[old] ELSE d[k]]
\* {**a, **b}
Merge(a, b) == [k \in DOMAIN a \cup DOMAIN b |-> IF k \in DOMAIN b THEN b[k] ELSE a[k]]

\* json.dumps / json.loads of a kwargs mapping: the text lists the members in
\* key order, each as a <<name, value>> pair
RECURSIVE json_dumps_keys(_, _)
json_dumps_keys(d, keys) ==
    IF keys = {} THEN <<>>
    ELSE LET k == CHOOSE x \in keys : \A y \in keys : (x = "objective") \/ (y # "objective")
         IN <<<<k, d[k]>>>> \o json_dumps_keys(d, keys \ {k})
json_dumps(d) == json_dumps_keys(d, DOMAIN d)
json_loads(s) ==
    [k \in {s[i][1] : i \in DOMAIN s} |-> s[CHOOSE i \in DOMAIN s : s[i][1] = k][2]]

\* ---------------------------------------------------------------- stores
\* uuid.uuid4(): a value never handed out before for that use
uuid4(use) == issued[use] + 1

RECURSIVE KeysInOrder(_)
KeysInOrder(S) ==
    IF S = {} THEN <<>>
    ELSE LET k == CHOOSE x \in S : \A y \in S : x <= y
         IN <<k>> \o KeysInOrder(S \ {k})

\* fault: the write leaves the results of the body out
IndexDocumentWithoutResults(store, id, body) ==
    [k \in DOMAIN store \cup {id} |->
        IF k = id THEN [f \in DOMAIN body \ {"results"} |-> body[f]] ELSE store[k]]
\* client.index(index, id, body): one document written whole under id
IndexDocument(store, id, body) ==
    [k \in DOMAIN store \cup {id} |-> IF k = id THEN body ELSE store[k]]
\* client.delete(index, id) and client.delete_by_query(index, query)
DeleteDocuments(store, hits) == [k \in DOMAIN store \ hits |-> store[k]]

\* DatasetRepository.get / DatasourceRepository.get: NotFound when absent
DatasetExists(key) == key \in DOMAIN datasets
\* ExpectationRepository.query_by_filter(dataset_id, enabled): the hits as
\* Expectation objects, kwargs loaded back into a mapping
query_by_filter(dataset_id, enabled) ==
    LET order == KeysInOrder({k \in DOMAIN expectations :
                                /\ expectations[k].dataset_id = dataset_id
                                /\ expectations[k].enabled = enabled})
    IN [i \in DOMAIN order |->
          [key |-> order[i],
           expectation_type |-> expectations[order[i]].expectation_type,
           kwargs |-> json_loads(expectations[order[i]].kwargs)]]
\* the Expectation object of a hit: a stored type that is not in the registry
\* does not resolve (UnsupportedExpectationType)
resolves(document) == document.expectation_type \in type_map
\* datasource.expectation_meta()
expectation_meta(datasource_id) == [datasource_name |-> datasource_id]

\* ---------------------------------------------------------------- Runner
\* run_dataset_validation: identifiers, meta and runner_expectations
identifiers(dataset_id) ==
    [datasource_id |-> datasets[dataset_id].datasource_id, dataset_id |-> dataset_id]
meta_template(dataset_id) ==
    Merge(expectation_meta(datasets[dataset_id].datasource_id),
          [dataset_name |-> datasets[dataset_id].dataset_name])
\* the dataset as the Runner reads it: its name and runtime_parameters
dataset_batch(dataset_id) ==
    [dataset_name |-> datasets[dataset_id].dataset_name,
     runtime_parameters |-> datasets[dataset_id].runtime_parameters]
\* fault: the position in the hits taken for the key
runner_expectations_by_position(found) ==
    [i \in DOMAIN found |->
        [expectation_type |-> found[i].expectation_type,
         kwargs |-> found[i].kwargs,
         meta |-> [expectation_id |-> i]]]
\* run_dataset_validation, the loop over the expectations found: each as a
\* dict whose meta names its key
runner_expectations(found) ==
    [i \in DOMAIN found |->
        [expectation_type |-> found[i].expectation_type,
         kwargs |-> found[i].kwargs,
         meta |-> [expectation_id |-> found[i].key]]]

\* Runner.validate, the loop that builds the suite: one check per expectation
expectation_configuration(expectation, batch, meta) ==
    LET run_meta == IF DOMAIN batch.runtime_parameters # {}
                    THEN Merge(meta, batch.runtime_parameters)
                    ELSE meta
        check_meta == IF DOMAIN expectation.meta # {} THEN expectation.meta ELSE run_meta
        kwargs == IF Truthy(expectation.kwargs, "objective")
                  THEN Rename(expectation.kwargs, "objective", "mostly")
                  ELSE expectation.kwargs
    IN [expectation_type |-> expectation.expectation_type,
        kwargs |-> kwargs,
        meta |-> check_meta]
compile_suite(exps, batch, meta) ==
    [i \in DOMAIN exps |-> expectation_configuration(exps[i], batch, meta)]

\* validator.validate().to_json_dict(): the engine's raw outcome, one result
\* per check in suite order; the observed value of a set check is a list
ListValued == {"expect_column_distinct_values_to_be_in_set"}
raw_result(check, passed) ==
    [expectation_config |-> check,
     success |-> passed,
     result |-> [observed_value |->
                    IF check.expectation_type \in ListValued THEN "list" ELSE "scalar"]]
success_percent(outcomes) ==
    IF Len(outcomes) = 0 THEN "None"
    ELSE (100 * Cardinality({i \in DOMAIN outcomes : outcomes[i]})) \div Len(outcomes)
engine_validation(suite, outcomes, run_time) ==
    [meta |-> [run_name |-> "ge", run_time |-> run_time],
     results |-> [i \in DOMAIN suite |-> raw_result(suite[i], outcomes[i])],
     success |-> \A i \in DOMAIN outcomes : outcomes[i],
     statistics |-> [evaluated_expectations |-> Len(outcomes),
                     success_percent |-> success_percent(outcomes)]]

raw_validation(suite, outcomes) == engine_validation(suite, outcomes, now)

\* Runner.validate, the loop over validation["results"]
normalize_result(result) ==
    LET config == result.expectation_config
        kwargs == IF Truthy(config.kwargs, "mostly")
                  THEN Rename(config.kwargs, "mostly", "objective")
                  ELSE config.kwargs
        observed == IF result.result.observed_value = "list"
                    THEN Rename(result.result, "observed_value", "observed_value_list")
                    ELSE result.result
    IN [expectation_config |->
            [expectation_type |-> config.expectation_type,
             kwargs |-> kwargs,
             meta |-> [k \in DOMAIN config.meta \ {"expectation_id"} |-> config.meta[k]]],
        success |-> result.success,
        result |-> observed,
        expectation_id |-> config.meta["expectation_id"]]
\* meta.pop("expectation_id") raises KeyError when the key is missing
CanNormalize(raw) ==
    \A i \in DOMAIN raw.results :
        "expectation_id" \in DOMAIN raw.results[i].expectation_config.meta
normalize(raw, run_name, ids) ==
    [meta |-> Merge([raw.meta EXCEPT !.run_name = run_name], ids),
     results |-> [i \in DOMAIN raw.results |-> normalize_result(raw.results[i])],
     success |-> raw.success,
     statistics |-> raw.statistics]

\* fault: the status does not look at success
_get_status_always_success(success) == "success"
\* Runner._get_status
_get_status(success) == IF success THEN "success" ELSE "failure"
\* the call made to action_dispatcher.dispatch
dispatch_call(ids, validation) ==
    [resource_key |-> ids.dataset_id,
     action_type |-> "validation",
     action_status |-> _get_status(validation.success),
     validation |-> validation]

\* ---------------------------------------------------------------- runs
\* run_dataset_validation(dataset_id), one invocation per slot of runs
IdleRun ==
    [pc |-> "idle", dataset_id |-> 0, batch |-> EmptyDict, identifiers |-> EmptyDict,
     meta |-> EmptyDict, expectations |-> <<>>, validation |-> EmptyDict,
     doc_id |-> 0, error |-> ""]
\* an exception unwinds the invocation: its locals are gone
Failed(run, where) ==
    [IdleRun EXCEPT !.pc = "failed", !.dataset_id = run.dataset_id, !.error = where]

\* fault: the expectations of the dataset whatever their enabled flag
enabled_expectations_of_any_flag(dataset_id) ==
    query_by_filter(dataset_id, TRUE) \o query_by_filter(dataset_id, FALSE)
\* ExpectationRepository(client).query_by_filter(dataset_id=dataset.key, enabled=True)
enabled_expectations(dataset_id) == query_by_filter(dataset_id, TRUE)
\* the three repository reads and the runner_expectations loop
RunRead(r, dataset_id) ==
    /\ runs[r].pc = "idle"
    /\ runs' = [runs EXCEPT ![r] =
          IF \/ ~DatasetExists(dataset_id)
             \/ \E k \in DOMAIN expectations :
                   /\ expectations[k].dataset_id = dataset_id
                   /\ expectations[k].enabled
                   /\ ~resolves(expectations[k])
          THEN Failed([@ EXCEPT !.dataset_id = dataset_id], "read")
          ELSE [@ EXCEPT !.pc = "read",
                         !.dataset_id = dataset_id,
                         !.batch = dataset_batch(dataset_id),
                         !.identifiers = identifiers(dataset_id),
                         !.meta = meta_template(dataset_id),
                         !.expectations =
                             runner_expectations(enabled_expectations(dataset_id))]]
    /\ UNCHANGED <<datasets, expectations, validations, dispatched, proposed, issued, now, returned, inflight>>

\* str(uuid.uuid4()) for run_id.run_name: a token no other invocation draws
run_name(r) == r

\* Runner.validate up to the dispatch: compile, execute, normalize
RunValidate(r) ==
    /\ runs[r].pc = "read"
    /\ LET suite == compile_suite(runs[r].expectations, runs[r].batch, runs[r].meta)
       IN \/ \E outcomes \in [DOMAIN suite -> BOOLEAN] :
                LET raw == raw_validation(suite, outcomes)
                IN /\ runs' = [runs EXCEPT ![r] =
                        IF CanNormalize(raw)
                        THEN [@ EXCEPT !.pc = "validated",
                                       !.validation = normalize(raw, run_name(r),
                                                                runs[r].identifiers)]
                        ELSE Failed(@, "normalize")]
          \/ \* the engine raises: connection, query or compilation error
             runs' = [runs EXCEPT ![r] = Failed(@, "execute")]
    /\ UNCHANGED <<datasets, expectations, validations, dispatched, proposed, issued, now, returned, inflight>>

\* action_dispatcher.dispatch(...): the call is made once; it returns or raises,
\* and an exception leaves Runner.validate and run_dataset_validation
RunDispatch(r) ==
    /\ runs[r].pc = "validated"
    /\ dispatched' = [dispatched EXCEPT ![r] =
          Append(@, dispatch_call(runs[r].identifiers, runs[r].validation))]
    /\ \/ runs' = [runs EXCEPT ![r].pc = "dispatched"]
       \/ runs' = [runs EXCEPT ![r] = Failed(@, "dispatch")]
    /\ UNCHANGED <<datasets, expectations, validations, proposed, issued, now, returned, inflight>>

\* fault: the document stored under the id of its dataset
validation_document_id_of_dataset(r) == runs[r].dataset_id
\* client.index(index=VALIDATION_INDEX, id=str(uuid.uuid4()), body=validation.dict())
validation_document_id(r) == uuid4("validation")
RunIndex(r) ==
    /\ runs[r].pc = "dispatched"
    /\ validations' = IndexDocument(validations, validation_document_id(r),
                                    runs[r].validation)
    /\ issued' = [issued EXCEPT !.validation = uuid4("validation")]
    /\ runs' = [runs EXCEPT ![r].pc = "done", ![r].doc_id = validation_document_id(r)]
    /\ UNCHANGED <<datasets, expectations, dispatched, proposed, now, returned, inflight>>

run_dataset_validation(r) ==
    \/ \E d \in DatasetKeys : RunRead(r, d)
    \/ RunValidate(r)
    \/ RunDispatch(r)
    \/ RunIndex(r)

\* ---------------------------------------------------------------- dataset.py
Datasets ==
    [datasource_id : DatasourceIds \cup {"src_gone"}, datasource_name : DatasourceIds,
     dataset_name : DatasetNames, runtime_parameters : {NoRuntimeParameters, RuntimeParameters},
     sample : {"None"}]
IsQuery(dataset) == DOMAIN dataset.runtime_parameters # {}

\* _check_datasource_exists: get_datasource raises NotFound
datasource_exists(datasource_id) == datasource_id \in DatasourceIds
\* split_dataset_resource: <<schema, name>> of the dataset
split_dataset_resource(dataset) ==
    IF IsQuery(dataset) THEN <<dataset.runtime_parameters.schema, dataset.dataset_name>>
    ELSE IF Len(dataset.dataset_name) = 2
         THEN <<dataset.dataset_name[1], <<dataset.dataset_name[2]>> >>
         ELSE <<"", dataset.dataset_name>>
\* _check_dataset_does_not_exists: the hits of its bool/should query
dataset_exists(dataset) ==
    LET split == split_dataset_resource(dataset)
    IN \E k \in DOMAIN datasets :
          \/ /\ datasets[k].datasource_name = dataset.datasource_name
             /\ IsQuery(datasets[k])
             /\ datasets[k].runtime_parameters.schema = split[1]
             /\ datasets[k].dataset_name = split[2]
          \/ /\ datasets[k].datasource_name = dataset.datasource_name
             /\ datasets[k].dataset_name = dataset.dataset_name

\* sample(dataset, False): the rows, or {"exception": ...}
SampleResponses == {"rows", "exception"}

\* the status create_dataset answers with
create_dataset_status(dataset, test_query, response) ==
    IF ~datasource_exists(dataset.datasource_id) THEN 404
    ELSE IF dataset_exists(dataset) THEN 409
    ELSE IF test_query /\ response = "exception" THEN 422
    ELSE 200

create_dataset(dataset, test_query, response) ==
    /\ issued.dataset < MaxDatasets
    /\ IF create_dataset_status(dataset, test_query, response) = 200
       THEN /\ datasets' = IndexDocument(datasets, uuid4("dataset"),
                  [dataset EXCEPT !.sample = IF test_query THEN response ELSE @])
            /\ issued' = [issued EXCEPT !.dataset = uuid4("dataset")]
       ELSE UNCHANGED <<datasets, issued>>
    /\ UNCHANGED <<expectations, validations, runs, dispatched, proposed, now, returned, inflight>>

\* whether update_dataset samples the dataset again
resamples(original, dataset) ==
    \/ original.dataset_name # dataset.dataset_name /\ ~IsQuery(dataset)
    \/ /\ IsQuery(original) /\ IsQuery(dataset)
       /\ original.runtime_parameters.query # dataset.runtime_parameters.query
\* the status update_dataset answers with; 500 is the NotFound of client.get,
\* which nothing catches
update_dataset_status(key, dataset, response) ==
    IF key \notin DOMAIN datasets THEN 500
    ELSE IF datasets[key] = dataset THEN 200
    ELSE IF datasets[key].datasource_id # dataset.datasource_id THEN 422
    ELSE IF ~datasource_exists(dataset.datasource_id) THEN 404
    ELSE IF datasets[key].dataset_name # dataset.dataset_name /\ dataset_exists(dataset) THEN 409
    ELSE IF resamples(datasets[key], dataset) /\ response = "exception" THEN 422
    ELSE 200

update_dataset(key, dataset, response) ==
    /\ datasets' =
          IF update_dataset_status(key, dataset, response) = 200 /\ datasets[key] # dataset
          THEN [datasets EXCEPT ![key] =
                  [dataset EXCEPT !.sample = IF resamples(datasets[key], dataset)
                                             THEN response ELSE @]]
          ELSE datasets
    /\ UNCHANGED <<expectations, validations, runs, dispatched, proposed, issued, now, returned, inflight>>

\* a request to create_dataset or update_dataset being handled: the handler
\* first reads and checks, then writes, and other requests run in between
IdleRequest == [pc |-> "idle"]
Answered(status) == [pc |-> "answered", status |-> status]
\* create_dataset up to the sample: the two checks and the test query
create_dataset_check(q, dataset, test_query, response) ==
    /\ inflight[q].pc = "idle"
    /\ issued.dataset + Cardinality({x \in RequestIds : /\ inflight[x].pc = "checked"
                                                       /\ inflight[x].op = "create"})
          < MaxDatasets
    /\ inflight' = [inflight EXCEPT ![q] =
          IF create_dataset_status(dataset, test_query, response) = 200
          THEN [pc |-> "checked", op |-> "create", key |-> 0,
                dataset |-> [dataset EXCEPT !.sample = IF test_query THEN response ELSE @]]
          ELSE Answered(create_dataset_status(dataset, test_query, response))]
    /\ UNCHANGED <<datasets, expectations, validations, runs, dispatched, proposed, issued, now, returned>>
\* create_dataset, client.index under a fresh uuid4
create_dataset_index(q) ==
    /\ inflight[q].pc = "checked" /\ inflight[q].op = "create"
    /\ datasets' = IndexDocument(datasets, uuid4("dataset"), inflight[q].dataset)
    /\ issued' = [issued EXCEPT !.dataset = uuid4("dataset")]
    /\ inflight' = [inflight EXCEPT ![q] = Answered(200)]
    /\ UNCHANGED <<expectations, validations, runs, dispatched, proposed, now, returned>>
\* update_dataset up to the sample: client.get, the checks and the sample
update_dataset_check(q, key, dataset, response) ==
    /\ inflight[q].pc = "idle"
    /\ inflight' = [inflight EXCEPT ![q] =
          IF update_dataset_status(key, dataset, response) = 200 /\ datasets[key] # dataset
          THEN [pc |-> "checked", op |-> "update", key |-> key,
                dataset |-> [dataset EXCEPT !.sample = IF resamples(datasets[key], dataset)
                                                       THEN response ELSE @]]
          ELSE Answered(update_dataset_status(key, dataset, response))]
    /\ UNCHANGED <<datasets, expectations, validations, runs, dispatched, proposed, issued, now, returned>>
\* update_dataset, client.update of the document of the key
update_dataset_update(q) ==
    /\ inflight[q].pc = "checked" /\ inflight[q].op = "update"
    /\ datasets' = IF inflight[q].key \in DOMAIN datasets
                   THEN [datasets EXCEPT ![inflight[q].key] = inflight[q].dataset]
                   ELSE datasets
    /\ inflight' = [inflight EXCEPT ![q] =
          Answered(IF inflight[q].key \in DOMAIN datasets THEN 200 ELSE 500)]
    /\ UNCHANGED <<expectations, validations, runs, dispatched, proposed, issued, now, returned>>

\* the status update_sample answers with; 500 is the NotFound of client.get,
\* which nothing catches
update_sample_status(key, response) ==
    IF key \notin DOMAIN datasets THEN 500
    ELSE IF response = "exception" THEN 422
    ELSE 200

update_sample(key, response) ==
    /\ datasets' =
          IF update_sample_status(key, response) = 200
          THEN [datasets EXCEPT ![key].sample = response]
          ELSE datasets
    /\ UNCHANGED <<expectations, validations, runs, dispatched, proposed, issued, now, returned, inflight>>

\* client.delete_by_query(index, {"query": {"match": {field: value}}}): the
\* documents of an index whose field of that name holds the value
ValidationFields(doc, field) ==
    IF field = "meta.dataset_id" THEN {doc.meta.dataset_id}
    ELSE IF field = "meta.datasource_id" THEN {doc.meta.datasource_id}
    ELSE IF field = "results.expectation_id"
         THEN {doc.results[i].expectation_id : i \in DOMAIN doc.results}
    ELSE {}
MatchValidations(field, value) ==
    {k \in DOMAIN validations : value \in ValidationFields(validations[k], field)}
MatchExpectations(field, value) ==
    {k \in DOMAIN expectations : field \in DOMAIN expectations[k]
                                 /\ expectations[k][field] = value}

\* 500 is an exception of the request to the scheduler API, which nothing catches
delete_dataset_status(key, scheduler_ok) ==
    IF ~scheduler_ok THEN 500 ELSE IF key \in DOMAIN datasets THEN 200 ELSE 404

delete_dataset(key, scheduler_ok) ==
    /\ validations' = DeleteDocuments(validations, MatchValidations("dataset_id", key))
    /\ expectations' = DeleteDocuments(expectations, MatchExpectations("dataset_id", key))
    /\ datasets' = IF scheduler_ok THEN DeleteDocuments(datasets, {key}) ELSE datasets
    /\ UNCHANGED <<runs, dispatched, proposed, issued, now, returned, inflight>>

\* ValidationRepository.delete_by_filter: the hits of the must clauses it builds
delete_by_filter(dataset_id, datasource_id, expectation_id) ==
    {k \in DOMAIN validations :
        /\ dataset_id # 0 => dataset_id \in ValidationFields(validations[k], "meta.dataset_id")
        /\ datasource_id # "" =>
              datasource_id \in ValidationFields(validations[k], "meta.datasource_id")
        /\ expectation_id # 0 =>
              expectation_id \in ValidationFields(validations[k], "expectation_id")}

\* ---------------------------------------------------------------- expectation.py
Expectations(types, kwargs, enabled) ==
    [expectation_type : types, kwargs : kwargs,
     datasource_id : DatasourceIds, dataset_id : 1 .. MaxDatasets,
     enabled : enabled, suggested : {FALSE}]
\* the document indexed for an expectation: kwargs serialized
expectation_copy(expectation) == [expectation EXCEPT !.kwargs = json_dumps(@)]

\* fault: the datasource of the dataset is not compared
create_expectation_status_unchecked(expectation) ==
    IF expectation.expectation_type \notin type_map THEN 422
    ELSE IF ~datasource_exists(expectation.datasource_id) THEN 404
    ELSE IF expectation.dataset_id \notin DOMAIN datasets THEN 404
    ELSE 200
\* the status create_expectation answers with
create_expectation_status(expectation) ==
    IF expectation.expectation_type \notin type_map THEN 422
    ELSE IF ~datasource_exists(expectation.datasource_id) THEN 404
    ELSE IF expectation.dataset_id \notin DOMAIN datasets THEN 404
    ELSE IF datasets[expectation.dataset_id].datasource_id # expectation.datasource_id THEN 422
    ELSE 200

create_expectation(expectation) ==
    /\ issued.expectation < MaxExpectations
    /\ IF create_expectation_status(expectation) = 200
       THEN /\ expectations' = IndexDocument(expectations, uuid4("expectation"),
                                             expectation_copy(expectation))
            /\ issued' = [issued EXCEPT !.expectation = uuid4("expectation")]
       ELSE UNCHANGED <<expectations, issued>>
    /\ UNCHANGED <<datasets, validations, runs, dispatched, proposed, now, returned, inflight>>

\* fault: the type of the request is not looked up in the registry
update_expectation_status_any_type(expectation, key) ==
    IF key \notin DOMAIN expectations THEN 404
    ELSE IF expectations[key] = expectation_copy(expectation) THEN 200
    ELSE IF expectations[key].datasource_id # expectation.datasource_id THEN 422
    ELSE IF expectations[key].dataset_id # expectation.dataset_id THEN 422
    ELSE 200
\* the status update_expectation answers with
update_expectation_status(expectation, key) ==
    IF expectation.expectation_type \notin type_map THEN 422
    ELSE IF key \notin DOMAIN expectations THEN 404
    ELSE IF expectations[key] = expectation_copy(expectation) THEN 200
    ELSE IF expectations[key].datasource_id # expectation.datasource_id THEN 422
    ELSE IF expectations[key].dataset_id # expectation.dataset_id THEN 422
    ELSE 200

update_expectation(expectation, key) ==
    LET changed == /\ update_expectation_status(expectation, key) = 200
                   /\ expectations[key] # expectation_copy(expectation)
        retyped == changed /\ expectations[key].expectation_type # expectation.expectation_type
    IN /\ retyped => issued.expectation < MaxExpectations
       /\ IF retyped
          THEN \* indexed under a new id, then the old document and its validations deleted
               /\ expectations' = DeleteDocuments(
                      IndexDocument(expectations, uuid4("expectation"),
                                    expectation_copy(expectation)), {key})
               /\ validations' = DeleteDocuments(validations,
                                                 MatchValidations("expectation_id", key))
               /\ issued' = [issued EXCEPT !.expectation = uuid4("expectation")]
          ELSE /\ expectations' = IF changed
                                  THEN [expectations EXCEPT ![key] = expectation_copy(expectation)]
                                  ELSE expectations
               /\ UNCHANGED <<validations, issued>>
       /\ UNCHANGED <<datasets, runs, dispatched, proposed, now, returned, inflight>>

delete_expectation_status(key) == IF key \in DOMAIN expectations THEN 200 ELSE 404

delete_expectation(key) ==
    /\ validations' = DeleteDocuments(validations, MatchValidations("expectation_id", key))
    /\ expectations' = DeleteDocuments(expectations, {key})
    /\ UNCHANGED <<datasets, runs, dispatched, proposed, issued, now, returned, inflight>>

\* ---------------------------------------------------------------- profiling
\* c.EXPECT_COLUMN_VALUES_TO_BE_BETWEEN
EXPECT_COLUMN_VALUES_TO_BE_BETWEEN == "expect_column_values_to_be_between"
\* the expectation types the profiler of the engine knows
ProfilerTypes == type_map \cup {UnregisteredType, EXPECT_COLUMN_VALUES_TO_BE_BETWEEN}
\* supported_unsupported_expectations()["unsupported_expectations"]
unsupported_expectations == ProfilerTypes \ (type_map \cup {EXPECT_COLUMN_VALUES_TO_BE_BETWEEN})
\* fault: the range check is not appended
excluded_expectations_unsupported_only == unsupported_expectations
\* create_dataset_suggestions: the exclusion set handed to the Runner
excluded_expectations == unsupported_expectations \cup {EXPECT_COLUMN_VALUES_TO_BE_BETWEEN}
\* profiler.build_suite().to_json_dict()["expectations"] for an exclusion set
BuiltSuites(excluded, kwargs, n) ==
    UNION {[1 .. m -> [expectation_type : ProfilerTypes \ excluded, kwargs : kwargs]] :
           m \in 0 .. n}

\* Runner.profile, the loop over the built expectations
KwargsDefaults ==
    [result_format |-> "SUMMARY", include_config |-> TRUE, catch_exceptions |-> TRUE]
profile_expectation(expectation, datasource_id, dataset_id) ==
    LET updated == Merge(expectation.kwargs, KwargsDefaults)
        kwargs == IF Truthy(updated, "mostly")
                  THEN Rename(updated, "mostly", "objective")
                  ELSE updated
    IN [expectation_type |-> expectation.expectation_type,
        kwargs |-> json_dumps(kwargs),
        enabled |-> FALSE,
        suggested |-> TRUE,
        datasource_id |-> datasource_id,
        dataset_id |-> dataset_id]

create_dataset_suggestions(dataset_id, built) ==
    /\ proposed' =
          IF DatasetExists(dataset_id)
          THEN [i \in DOMAIN built |->
                  profile_expectation(built[i], datasets[dataset_id].datasource_id, dataset_id)]
          ELSE proposed
    /\ returned' =
          IF DatasetExists(dataset_id)
          THEN [call |-> "profile", excluded_expectations |-> excluded_expectations]
          ELSE returned
    /\ UNCHANGED <<datasets, expectations, validations, runs, dispatched, issued, now, inflight>>

\* ---------------------------------------------------------------- sampling
\* what the engine answers to get_validator and head: the first rows, the
\* KeyError of what it does not find, or another exception
EngineSamples == {"head", "KeyError", "error"}
\* fault: the test of runtime_parameters negated
Runner_sample_negated(batch, outcome) ==
    IF outcome = "KeyError"
    THEN IF ~IsQuery(batch)
         THEN [exception |-> <<"Syntax error in query.">>]
         ELSE [exception |-> <<batch.dataset_name, " is not recognized.">>]
    ELSE IF outcome = "head" THEN [columns |-> "columns", rows |-> "rows"]
    ELSE [raised |-> outcome]
\* Runner.sample: the structured result, or the exception that leaves it
Runner_sample(batch, outcome) ==
    IF outcome = "KeyError"
    THEN IF IsQuery(batch)
         THEN [exception |-> <<"Syntax error in query.">>]
         ELSE [exception |-> <<batch.dataset_name, " is not recognized.">>]
    ELSE IF outcome = "head" THEN [columns |-> "columns", rows |-> "rows"]
    ELSE [raised |-> outcome]
\* a call of Runner(datasource, batch, meta).sample()
sample(batch, outcome) ==
    /\ returned' = [call |-> "sample", batch |-> batch, outcome |-> outcome,
                    result |-> Runner_sample(batch, outcome)]
    /\ UNCHANGED <<datasets, expectations, validations, runs, dispatched, proposed, issued, now, inflight>>

\* ---------------------------------------------------------------- batch and connection
\* Runner.get_batch_request(is_profile)
get_batch_request(batch, is_profile) ==
    IF IsQuery(batch)
    THEN [class_name |-> "RuntimeBatchRequest",
          data_connector_name |-> "default_runtime_data_connector",
          data_asset_name |-> batch.dataset_name,
          runtime_parameters |-> batch.runtime_parameters,
          batch_spec_passthrough |->
              IF is_profile THEN [create_temp_table |-> TRUE] ELSE EmptyDict]
    ELSE [class_name |-> "BatchRequest",
          data_connector_name |-> "default_inferred_data_connector_name",
          data_asset_name |-> batch.dataset_name,
          runtime_parameters |-> EmptyDict,
          batch_spec_passthrough |-> [create_temp_table |-> FALSE]]
\* the passes of a Runner, and the is_profile each calls get_batch_request
\* with: profile passes True, sample and validate pass nothing and get the
\* default of the parameter, True
Passes == {"profile", "sample", "validate"}
is_profile_of(pass) == IF pass = "profile" THEN TRUE ELSE TRUE
\* Engine: the two engines the resolver names, and two of the others
Engines == {"SNOWFLAKE", "BIGQUERY", "POSTGRESQL", "REDSHIFT"}
\* the call self.datasource.connection_string(...), by its arguments
connection_string(datasource, arguments) ==
    [datasource |-> datasource, arguments |-> arguments]
\* Runner._get_connection_string; `schema, _ = dataset_name.split(".")`
\* unpacks two segments and raises ValueError on any other number
_get_connection_string(datasource, batch) ==
    IF datasource.engine = "SNOWFLAKE" /\ IsQuery(batch)
    THEN connection_string(datasource, <<batch.runtime_parameters.schema>>)
    ELSE IF datasource.engine = "BIGQUERY" /\ IsQuery(batch)
    THEN connection_string(datasource, <<batch.runtime_parameters.schema>>)
    ELSE IF datasource.engine = "BIGQUERY" /\ ~IsQuery(batch)
    THEN IF Len(batch.dataset_name) = 2
         THEN connection_string(datasource, <<batch.dataset_name[1]>>)
         ELSE [raised |-> "ValueError"]
    ELSE connection_string(datasource, <<>>)
\* the start of Runner.profile, Runner.sample and Runner.validate: the data
\* context configuration, then the batch request; an exception of the first
\* leaves the pass
Runner_context(datasource, batch, pass) ==
    /\ returned' =
          LET resolved == _get_connection_string(datasource, batch)
              raised == "raised" \in DOMAIN resolved
          IN [call |-> "context", pass |-> pass, datasource |-> datasource, batch |-> batch,
              raised |-> raised,
              connection_string |-> resolved,
              batch_request |-> IF raised THEN EmptyDict
                                ELSE get_batch_request(batch, is_profile_of(pass))]
    /\ UNCHANGED <<datasets, expectations, validations, runs, dispatched, proposed, issued, now, inflight>>

\* ---------------------------------------------------------------- validation.py
\* date math of the search: the clock counts half days
Days(n) == 2 * n
calendar_day(run_time) == run_time \div Days(1)
\* the three filter aggregations and the days of their ranges
WindowDays == ("1_day" :> 1) @@ ("7_day" :> 7) @@ ("31_day" :> 31)
\* {"range": {"meta.run_id.run_time": {"gte": "now-<n>d", "lte": "now"}}}
in_range(keys, days) ==
    {k \in keys : /\ validations[k].meta.run_time >= now - Days(days)
                  /\ validations[k].meta.run_time <= now}
\* fault: the search without the match on the dataset
statistics_hits_of_any_dataset(dataset_id) == in_range(DOMAIN validations, 31)
\* the query of statistics: the dataset's validations of the last 31 days
statistics_hits(dataset_id) ==
    in_range({k \in DOMAIN validations : validations[k].meta.dataset_id = dataset_id}, 31)
RECURSIVE sum_success_percent(_)
sum_success_percent(keys) ==
    IF keys = {} THEN 0
    ELSE LET k == CHOOSE x \in keys : TRUE
         IN validations[k].statistics.success_percent + sum_success_percent(keys \ {k})
RECURSIVE GCD(_, _)
GCD(a, b) == IF b = 0 THEN a ELSE GCD(b, a % b)
\* the engine gives a success_percent to a validation that evaluated a check
has_success_percent(document) == document.statistics.evaluated_expectations > 0
\* the JSON null of an aggregation without a value
Null == <<>>
\* a quotient, as the fraction in lowest terms
Quotient(a, b) == <<a \div GCD(a, b), b \div GCD(a, b)>>
\* fault: an average of 0 where no document has the field
avg_zero_when_empty(keys) ==
    LET valued == {k \in keys : has_success_percent(validations[k])}
    IN IF valued = {} THEN [value |-> Quotient(0, 1)]
       ELSE [value |-> Quotient(sum_success_percent(valued), Cardinality(valued))]
\* {"avg": {"field": "statistics.success_percent"}}: over the documents that
\* have the field; null when none has
avg(keys) ==
    LET valued == {k \in keys : has_success_percent(validations[k])}
    IN IF valued = {} THEN [value |-> Null]
       ELSE [value |-> Quotient(sum_success_percent(valued), Cardinality(valued))]
\* "validation_counts": date_histogram with calendar_interval 1d, one bucket
\* per day from the first day with a hit to the last
date_histogram(keys) ==
    IF keys = {} THEN <<>>
    ELSE LET days == {calendar_day(validations[k].meta.run_time) : k \in keys}
             first == CHOOSE d \in days : \A e \in days : d <= e
             last == CHOOSE d \in days : \A e \in days : d >= e
             of(d) == {k \in keys : calendar_day(validations[k].meta.run_time) = d}
         IN [d \in first .. last |->
                ("doc_count" :> Cardinality(of(d))) @@ ("1_day" :> avg(of(d)))]
\* ValidationRepository.statistics: a search, which writes nothing
statistics(dataset_id) ==
    /\ returned' =
          [call |-> "statistics", dataset_id |-> dataset_id, query_time |-> now,
           aggregations |->
               [name \in DOMAIN WindowDays |->
                   avg(in_range(statistics_hits(dataset_id), WindowDays[name]))],
           validation_counts |-> date_histogram(statistics_hits(dataset_id))]
    /\ UNCHANGED <<datasets, expectations, validations, runs, dispatched, proposed, issued, now, inflight>>

\* fault: the hits are marked as deleted and kept
delete_by_dataset_marking(dataset_id) ==
    /\ validations' =
          [k \in DOMAIN validations |->
              IF k \in delete_by_filter(dataset_id, "", 0)
              THEN [validations[k] EXCEPT !.meta = Merge(@, [deleted |-> TRUE])]
              ELSE validations[k]]
    /\ UNCHANGED <<datasets, expectations, runs, dispatched, proposed, issued, now, returned, inflight>>
\* ValidationRepository.delete_by_dataset, delete_by_datasource, delete_by_expectation
delete_by_dataset(dataset_id) ==
    /\ validations' = DeleteDocuments(validations, delete_by_filter(dataset_id, "", 0))
    /\ UNCHANGED <<datasets, expectations, runs, dispatched, proposed, issued, now, returned, inflight>>
delete_by_datasource(datasource_id) ==
    /\ validations' = DeleteDocuments(validations, delete_by_filter(0, datasource_id, 0))
    /\ UNCHANGED <<datasets, expectations, runs, dispatched, proposed, issued, now, returned, inflight>>
delete_by_expectation(expectation_id) ==
    /\ validations' = DeleteDocuments(validations, delete_by_filter(0, "", expectation_id))
    /\ UNCHANGED <<datasets, expectations, runs, dispatched, proposed, issued, now, returned, inflight>>

\* ---------------------------------------------------------------- specifications
NoDocuments == [k \in {} |-> EmptyDict]
NoCall == [call |-> "none"]
NoRuns ==
    /\ runs = [r \in RunIds |-> IdleRun]
    /\ dispatched = [r \in RunIds |-> <<>>]
    /\ validations = NoDocuments
    /\ proposed = <<>>
    /\ now = 0
    /\ returned = NoCall
    /\ inflight = [q \in RequestIds |-> IdleRequest]

\* the requests the handlers are driven with: each dataset is sent with the
\* sample a test query gives it, under the name of its datasource
DatasetRequests(datasources) ==
    {[d EXCEPT !.sample = "rows"] : d \in
        {d \in Datasets :
            /\ d.datasource_id \in datasources
            /\ d.datasource_name = d.datasource_id \/ d.datasource_id = "src_gone"
            /\ IsQuery(d) <=> d.dataset_name = <<"orders">>}}
MaxCandidates == 1
SuiteRequests == BuiltSuites(excluded_expectations, {[mostly |-> 50]}, MaxCandidates)

DatasetHandlers(requests) ==
    \/ \E d \in requests, s \in SampleResponses : create_dataset(d, TRUE, s)
    \/ \E k \in DatasetKeys, d \in requests, s \in SampleResponses : update_dataset(k, d, s)
    \/ \E k \in DatasetKeys, ok \in BOOLEAN : delete_dataset(k, ok)
ExpectationHandlers(requests) ==
    \/ \E e \in requests : create_expectation(e)
    \/ \E e \in requests, k \in ExpectationKeys : update_expectation(e, k)
    \/ \E k \in ExpectationKeys : delete_expectation(k)
RepositoryCalls ==
    \/ \E k \in DatasetKeys : delete_by_dataset(k)
    \/ \E s \in DatasourceIds : delete_by_datasource(s)
    \/ \E k \in ExpectationKeys : delete_by_expectation(k)

\* Spec: the handlers and the repository over empty indices, with one
\* validation run in flight beside them
Init ==
    /\ datasets = NoDocuments
    /\ expectations = NoDocuments
    /\ NoRuns
    /\ issued = [dataset |-> 0, expectation |-> 0, validation |-> 0]
Next ==
    \/ run_dataset_validation(1)
    \/ DatasetHandlers(DatasetRequests(DatasourceIds))
    \/ ExpectationHandlers(Expectations(type_map, {[objective |-> 50]}, {TRUE}))
    \/ RepositoryCalls
Spec == Init /\ [][Next]_vars

\* SpecCatalog: the dataset and expectation handlers and the profiler, driven
\* also with unknown datasources, unregistered types and disabled expectations
CatalogDatasetRequests == DatasetRequests(DatasourceIds \cup {"src_gone"})
CatalogExpectationRequests ==
    Expectations(type_map \cup {UnregisteredType}, {[objective |-> 50]}, BOOLEAN)
NextCatalog ==
    \/ DatasetHandlers(CatalogDatasetRequests)
    \/ ExpectationHandlers(CatalogExpectationRequests)
    \/ \E k \in DatasetKeys, b \in SuiteRequests : create_dataset_suggestions(k, b)
SpecCatalog == Init /\ [][NextCatalog]_vars

\* the datasets of a filled catalogue, by key
CatalogDatasets ==
    <<[datasource_id |-> "src_a", datasource_name |-> "src_a",
       dataset_name |-> <<"public", "orders">>,
       runtime_parameters |-> NoRuntimeParameters, sample |-> "rows"],
      [datasource_id |-> "src_b", datasource_name |-> "src_b",
       dataset_name |-> <<"orders">>,
       runtime_parameters |-> RuntimeParameters, sample |-> "rows"],
      [datasource_id |-> "src_b", datasource_name |-> "src_b",
       dataset_name |-> <<"public", "orders">>,
       runtime_parameters |-> NoRuntimeParameters, sample |-> "rows"],
      [datasource_id |-> "src_a", datasource_name |-> "src_a",
       dataset_name |-> <<"orders">>,
       runtime_parameters |-> RuntimeParameters, sample |-> "rows"]>>
StoredExpectation(dataset_id, kwargs, enabled) ==
    [expectation_type |-> "expect_column_values_to_not_be_null",
     kwargs |-> json_dumps(kwargs),
     datasource_id |-> CatalogDatasets[dataset_id].datasource_id,
     dataset_id |-> dataset_id,
     enabled |-> enabled,
     suggested |-> FALSE]

\* SpecExecutor: one run over a catalogue whose first dataset holds any
\* expectations, enabled or not, with any thresholds under either name
InitExecutor ==
    /\ datasets = [k \in 1 .. MaxDatasets |-> CatalogDatasets[k]]
    /\ \E n \in 0 .. MaxExpectations :
          expectations \in [1 .. n -> {StoredExpectation(1, kw, en) :
                                          kw \in Dict(KwargsKeys, Thresholds), en \in BOOLEAN}]
    /\ NoRuns
    /\ issued = [dataset |-> MaxDatasets, expectation |-> Len(expectations), validation |-> 0]
SpecExecutor == InitExecutor /\ [][run_dataset_validation(1)]_vars

\* SpecRuns: concurrent runs over a catalogue whose expectations are spread
\* over its datasets
InitRuns ==
    /\ datasets = [k \in 1 .. MaxDatasets |-> CatalogDatasets[k]]
    /\ expectations = [k \in 1 .. MaxExpectations |->
                          StoredExpectation(((k - 1) % MaxDatasets) + 1, [objective |-> 50], TRUE)]
    /\ NoRuns
    /\ issued = [dataset |-> MaxDatasets, expectation |-> MaxExpectations, validation |-> 0]
NextRuns == \E r \in RunIds : run_dataset_validation(r)
SpecRuns == InitRuns /\ [][NextRuns]_vars

\* SpecSuite: a run beside the expectation handlers, over a catalogue that
\* holds expectations of any dataset, enabled or not, suggested or not, also
\* of a type stored before it left the registry
SuiteTypes == {"expect_column_values_to_not_be_null", UnregisteredType}
SuiteDocuments ==
    {[expectation_type |-> t,
      kwargs |-> json_dumps([objective |-> 50]),
      datasource_id |-> CatalogDatasets[d].datasource_id,
      dataset_id |-> d,
      enabled |-> f[1],
      suggested |-> f[2]] :
        t \in SuiteTypes, d \in 1 .. MaxDatasets,
        f \in {<<TRUE, FALSE>>, <<FALSE, FALSE>>, <<FALSE, TRUE>>}}
SuiteExpectationRequests == Expectations(SuiteTypes, {[objective |-> 50]}, BOOLEAN)
InitSuite ==
    /\ datasets = [k \in 1 .. MaxDatasets |-> CatalogDatasets[k]]
    /\ \E n \in 0 .. MaxExpectations : expectations \in [1 .. n -> SuiteDocuments]
    /\ NoRuns
    /\ issued = [dataset |-> MaxDatasets, expectation |-> Len(expectations), validation |-> 0]
NextSuite ==
    \/ run_dataset_validation(1)
    \/ ExpectationHandlers(SuiteExpectationRequests)
SpecSuite == InitSuite /\ [][NextSuite]_vars

\* SpecSampling: Runner.sample on any dataset, beside the dataset handlers
\* that sample: create_dataset and update_sample
Batches ==
    {[dataset_name |-> n, runtime_parameters |-> p] :
        n \in DatasetNames, p \in {NoRuntimeParameters, RuntimeParameters}}
SamplingRequests ==
    {d \in Datasets :
        /\ d.datasource_id \in DatasourceIds
        /\ d.datasource_name = d.datasource_id
        /\ IsQuery(d) <=> d.dataset_name = <<"orders">>}
NextSampling ==
    \/ \E b \in Batches, o \in EngineSamples : sample(b, o)
    \/ \E d \in SamplingRequests, t \in BOOLEAN, s \in SampleResponses : create_dataset(d, t, s)
    \/ \E k \in DatasetKeys, s \in SampleResponses : update_sample(k, s)
SpecSampling == Init /\ [][NextSampling]_vars

\* SpecProfiler: create_dataset_suggestions over the datasets create_dataset
\* has stored, with the engine's profiler building checks with or without a
\* threshold of any value
ProfilerKwargs == Dict({"mostly"}, Thresholds)
ProfilerSuites == BuiltSuites(excluded_expectations, ProfilerKwargs, MaxCandidates)
NextProfiler ==
    \/ \E d \in SamplingRequests, s \in SampleResponses : create_dataset(d, TRUE, s)
    \/ \E k \in DatasetKeys, b \in ProfilerSuites : create_dataset_suggestions(k, b)
SpecProfiler == Init /\ [][NextProfiler]_vars

\* SpecStatistics: the Statistics Aggregator over a history of validations of
\* the catalogue's datasets, made at different ages, while the clock advances
MaxHistory == 3
MaxTicks == 2
HistoryAges == {0, 1, 3, 13, 62}
HistoryOutcomes == {<<>>, <<TRUE>>, <<FALSE>>}
HistorySuite(outcomes) ==
    [i \in DOMAIN outcomes |->
        [expectation_type |-> "expect_column_values_to_not_be_null",
         kwargs |-> [mostly |-> 50],
         meta |-> [expectation_id |-> i]]]
HistoryDocuments ==
    {normalize(engine_validation(HistorySuite(o), o, Days(32) - age), "history",
               [datasource_id |-> CatalogDatasets[d].datasource_id, dataset_id |-> d]) :
        d \in 1 .. MaxDatasets, age \in HistoryAges, o \in HistoryOutcomes}
InitStatistics ==
    /\ datasets = [k \in 1 .. MaxDatasets |-> CatalogDatasets[k]]
    /\ expectations = NoDocuments
    /\ runs = [r \in RunIds |-> IdleRun]
    /\ dispatched = [r \in RunIds |-> <<>>]
    /\ \E n \in 0 .. MaxHistory : validations \in [1 .. n -> HistoryDocuments]
    /\ proposed = <<>>
    /\ now = Days(32)
    /\ returned = NoCall
    /\ inflight = [q \in RequestIds |-> IdleRequest]
    /\ issued = [dataset |-> MaxDatasets, expectation |-> 0, validation |-> Len(validations)]
\* the wall clock advances by half a day
Tick ==
    /\ now < Days(32) + MaxTicks
    /\ now' = now + 1
    /\ UNCHANGED <<datasets, expectations, validations, runs, dispatched, proposed, issued, returned, inflight>>
NextStatistics ==
    \/ Tick
    \/ \E k \in DatasetKeys : statistics(k)
SpecStatistics == InitStatistics /\ [][NextStatistics]_vars

\* SpecResolver: the three passes of a Runner over datasources of every
\* engine and datasets addressed by a name of one, two or three segments or
\* by a query with a schema
ResolverDatasources == {[datasource_name |-> "src_a", engine |-> e] : e \in Engines}
ResolverBatches ==
    {[dataset_name |-> n, runtime_parameters |-> p] :
        n \in DatasetNames \cup {<<"project", "public", "orders">>},
        p \in {NoRuntimeParameters, RuntimeParameters,
               [RuntimeParameters EXCEPT !.schema = "sales"]}}
NextResolver ==
    \E d \in ResolverDatasources, b \in ResolverBatches, p \in Passes : Runner_context(d, b, p)
SpecResolver == Init /\ [][NextResolver]_vars

\* SpecRequests: create_dataset and update_dataset requests of one datasource
\* handled concurrently, each in its two steps
ConcurrentRequests == DatasetRequests({"src_a"})
NextRequests ==
    \E q \in RequestIds :
        \/ \E d \in ConcurrentRequests, s \in SampleResponses : create_dataset_check(q, d, TRUE, s)
        \/ create_dataset_index(q)
        \/ \E k \in DatasetKeys, d \in ConcurrentRequests, s \in SampleResponses :
              update_dataset_check(q, k, d, s)
        \/ update_dataset_update(q)
SpecRequests == Init /\ [][NextRequests]_vars

\* ---------------------------------------------------------------- claims
\* every record the Executor has produced: held by a run, handed to the
\* dispatcher, or stored
HoldsRecord(r) == runs[r].pc \in {"validated", "dispatched", "done"}
Produced ==
    {runs[r].validation : r \in {x \in RunIds : HoldsRecord(x)}}
        \cup UNION {{dispatched[r][i].validation : i \in DOMAIN dispatched[r]} : r \in RunIds}
        \cup {validations[k] : k \in DOMAIN validations}
Done(r) == runs[r].pc = "done"
FailedAt(r, stages) == runs[r].pc = "failed" /\ runs[r].error \in stages
DocumentsOf(r) == {k \in DOMAIN validations : validations[k].meta.run_name = run_name(r)}

\* C1: a run whose dispatch raised still has its normalized record in the
\* Validation store
C1_DispatchFailureKeepsRecord ==
    \A r \in RunIds :
        FailedAt(r, {"dispatch"}) =>
            \E k \in DOMAIN validations : validations[k] = dispatched[r][1].validation

\* a document that has every part of a Validation record
Whole(doc) ==
    /\ DOMAIN doc = {"meta", "results", "success", "statistics"}
    /\ {"run_name", "dataset_id", "datasource_id"} \subseteq DOMAIN doc.meta
    /\ Len(doc.results) = doc.statistics.evaluated_expectations
    /\ \A i \in DOMAIN doc.results :
          DOMAIN doc.results[i] = {"expectation_config", "success", "result", "expectation_id"}
\* C2: a completed run has added exactly one document, a run that failed at
\* the read, the compilation, the execution or the normalization has added
\* none, and every stored document is the whole record of a completed run
C2_WholeOrNothing ==
    /\ \A k \in DOMAIN validations :
          /\ Whole(validations[k])
          /\ \E r \in RunIds : Done(r) /\ runs[r].doc_id = k /\ validations[k] = runs[r].validation
    /\ \A r \in RunIds :
          /\ Done(r) => Cardinality(DocumentsOf(r)) = 1
          /\ FailedAt(r, {"read", "execute", "normalize"}) => DocumentsOf(r) = {}
          /\ runs[r].pc \in {"idle", "read", "validated", "dispatched"} => DocumentsOf(r) = {}
C2_Witness ==
    \E r1, r2 \in RunIds :
        /\ Done(r1) /\ Len(runs[r1].validation.results) > 0
        /\ FailedAt(r2, {"execute"})
        /\ Cardinality(DOMAIN validations) = 1

\* the keys of the hits a run of the dataset gets from the repository, in order
HitKeys(dataset_id) ==
    [i \in DOMAIN query_by_filter(dataset_id, TRUE) |->
        query_by_filter(dataset_id, TRUE)[i].key]
\* C3: in every produced record the i-th result carries, as a top-level
\* expectation_id and no longer in its metadata, the key of the stored
\* expectation the i-th check was built from: the i-th hit of the run's
\* query, whose type the check has
C3_ExpectationIds ==
    \A rec \in Produced :
        /\ Len(rec.results) = Len(HitKeys(rec.meta.dataset_id))
        /\ \A i \in DOMAIN rec.results :
              /\ "expectation_id" \in DOMAIN rec.results[i]
              /\ rec.results[i].expectation_id \in DOMAIN expectations
              /\ rec.results[i].expectation_id = HitKeys(rec.meta.dataset_id)[i]
              /\ rec.results[i].expectation_config.expectation_type =
                    expectations[rec.results[i].expectation_id].expectation_type
              /\ "expectation_id" \notin DOMAIN rec.results[i].expectation_config.meta
C3_Witness ==
    \E k \in DOMAIN validations :
        /\ Len(validations[k].results) > 0
        /\ validations[k].results[1].expectation_id # 1

\* C4: no result of a produced record keeps the key mostly in its kwargs
C4_NoMostly ==
    \A rec \in Produced : \A i \in DOMAIN rec.results :
        "mostly" \notin DOMAIN rec.results[i].expectation_config.kwargs

\* C5: a stored objective comes back from compilation and normalization as
\* objective with the same value
C5_RoundTrip ==
    \A rec \in Produced : \A i \in DOMAIN rec.results :
        LET stored == json_loads(expectations[rec.results[i].expectation_id].kwargs)
            shown == rec.results[i].expectation_config.kwargs
        IN "objective" \in DOMAIN stored =>
              "objective" \in DOMAIN shown /\ shown["objective"] = stored["objective"]

\* C6: a completed run has made one dispatch call, with its dataset_id, the
\* label "validation", the status of its record's success and the record; a
\* run that has no record yet, or failed before it had one, has made none
C6_DispatchOnce ==
    \A r \in RunIds :
        /\ Done(r) =>
              /\ Len(dispatched[r]) = 1
              /\ dispatched[r][1] =
                    [resource_key |-> runs[r].dataset_id,
                     action_type |-> "validation",
                     action_status |-> IF runs[r].validation.success
                                       THEN "success" ELSE "failure",
                     validation |-> runs[r].validation]
        /\ (runs[r].pc \in {"idle", "read", "validated"}
               \/ FailedAt(r, {"read", "execute", "normalize"})) => Len(dispatched[r]) = 0
C6_Witness ==
    \E r1, r2 \in RunIds :
        /\ Done(r1) /\ dispatched[r1][1].action_status = "failure"
        /\ FailedAt(r2, {"execute"}) /\ Len(dispatched[r2]) = 0

\* C7: the completed runs have each their own document, under ids that
\* differ, and the store holds as many documents as runs completed
C7_IndependentRecords ==
    /\ \A r1, r2 \in RunIds :
          Done(r1) /\ Done(r2) /\ r1 # r2 => runs[r1].doc_id # runs[r2].doc_id
    /\ \A r \in RunIds :
          Done(r) => /\ runs[r].doc_id \in DOMAIN validations
                     /\ validations[runs[r].doc_id] = runs[r].validation
    /\ Cardinality(DOMAIN validations) = Cardinality({r \in RunIds : Done(r)})
C7_Witness ==
    \E r1, r2 \in RunIds :
        /\ r1 # r2 /\ Done(r1) /\ Done(r2)
        /\ runs[r1].dataset_id = runs[r2].dataset_id
        /\ runs[r1].validation.success # runs[r2].validation.success

\* the steps that issue a delete-by-query on the Validation index
CascadeStep ==
    \/ \E k \in DatasetKeys : delete_by_dataset(k)
    \/ \E x \in DatasourceIds : delete_by_datasource(x)
    \/ \E k \in ExpectationKeys : delete_by_expectation(k)
    \/ \E k \in DatasetKeys, ok \in BOOLEAN : delete_dataset(k, ok)
    \/ \E k \in ExpectationKeys : delete_expectation(k)
    \/ \E k \in ExpectationKeys, e \in Expectations(type_map, {[objective |-> 50]}, {TRUE}) :
          update_expectation(e, k)
\* C8: a step leaves every document that stays in the Validation store as it
\* was; a document appears only when a run indexes it and disappears only in
\* a delete-by-query of a handler or of the repository
C8_Immutable ==
    [][/\ \A k \in DOMAIN validations \cap DOMAIN validations' :
             validations'[k] = validations[k]
       /\ DOMAIN validations' \ DOMAIN validations # {} => \E r \in RunIds : RunIndex(r)
       /\ DOMAIN validations \ DOMAIN validations' # {} => CascadeStep]_vars
C8_Witness ==
    \E k \in DOMAIN validations : \E i \in DOMAIN validations[k].results :
        /\ Done(1) /\ runs[1].doc_id = k /\ validations[k] = runs[1].validation
        /\ validations[k].results[i].expectation_id \notin DOMAIN expectations

\* C9: when delete_dataset(key) has answered 200 no validation and no
\* expectation of that dataset is left, and when delete_expectation(key) has
\* answered 200 no validation with a result of that expectation is left
C9_NoOrphans ==
    [][/\ \A k \in DatasetKeys :
             delete_dataset(k, TRUE) /\ delete_dataset_status(k, TRUE) = 200 =>
                /\ \A v \in DOMAIN validations' : validations'[v].meta.dataset_id # k
                /\ \A e \in DOMAIN expectations' : expectations'[e].dataset_id # k
       /\ \A k \in ExpectationKeys :
             delete_expectation(k) /\ delete_expectation_status(k) = 200 =>
                \A v \in DOMAIN validations' : \A i \in DOMAIN validations'[v].results :
                    validations'[v].results[i].expectation_id # k]_vars

\* an expectation names no dataset of another datasource
References(expectation) ==
    expectation.dataset_id \in DOMAIN datasets =>
        datasets[expectation.dataset_id].datasource_id = expectation.datasource_id
Stores == <<datasets, expectations, validations>>
\* C10: every stored or proposed expectation has the datasource_id of the
\* dataset it names; a request that would break this is answered with an
\* error, and a request answered with an error changes no index
C10_DatasourceMatches ==
    /\ [](/\ \A k \in DOMAIN expectations : References(expectations[k])
          /\ \A i \in DOMAIN proposed : References(proposed[i])
          /\ \A e \in CatalogExpectationRequests :
                ~References(e) => create_expectation_status(e) # 200
          /\ \A k \in DOMAIN datasets, d \in CatalogDatasetRequests, x \in SampleResponses :
                d.datasource_id # datasets[k].datasource_id
                    => update_dataset_status(k, d, x) # 200)
    /\ [][\/ UNCHANGED Stores
          \/ /\ \A e \in CatalogExpectationRequests :
                   create_expectation_status(e) # 200 => ~create_expectation(e)
             /\ \A e \in CatalogExpectationRequests, k \in ExpectationKeys :
                   update_expectation_status(e, k) # 200 \/ ~References(e)
                       => ~update_expectation(e, k)
             /\ \A k \in DatasetKeys, d \in CatalogDatasetRequests, x \in SampleResponses :
                   update_dataset_status(k, d, x) # 200 => ~update_dataset(k, d, x)]_vars
C10_Witness ==
    /\ \E k \in DOMAIN expectations : expectations[k].dataset_id \in DOMAIN datasets
    /\ \E i \in DOMAIN proposed : proposed[i].dataset_id \in DOMAIN datasets
    /\ \E e \in CatalogExpectationRequests :
          /\ e.dataset_id \in DOMAIN datasets
          /\ ~References(e)
          /\ create_expectation_status(e) = 422

C13_ProfilerExclusion ==
    returned.call = "profile" =>
        /\ unsupported_expectations \subseteq returned.excluded_expectations
        /\ "expect_column_values_to_be_between" \in returned.excluded_expectations
        /\ \A i \in DOMAIN proposed :
              /\ proposed[i].expectation_type \notin returned.excluded_expectations
              /\ proposed[i].expectation_type \notin unsupported_expectations
              /\ proposed[i].expectation_type # "expect_column_values_to_be_between"
C13_Witness ==
    /\ returned.call = "profile"
    /\ UnregisteredType \in returned.excluded_expectations
    /\ Len(proposed) = MaxCandidates
    /\ proposed[1].expectation_type \in type_map

\* C14: every candidate the Profiler returns is disabled and suggested, has
\* the kwargs result_format SUMMARY, include_config true and catch_exceptions
\* true, and has no kwarg mostly: a threshold is under objective, whatever
\* its value
C14_CandidateDefaults ==
    \A i \in DOMAIN proposed :
        LET kwargs == json_loads(proposed[i].kwargs)
        IN /\ proposed[i].enabled = FALSE
           /\ proposed[i].suggested = TRUE
           /\ {"result_format", "include_config", "catch_exceptions"} \subseteq DOMAIN kwargs
           /\ kwargs["result_format"] = "SUMMARY"
           /\ kwargs["include_config"] = TRUE
           /\ kwargs["catch_exceptions"] = TRUE
           /\ "mostly" \notin DOMAIN kwargs

\* C15: the expectations a run of dataset d takes from the store are, at the
\* step that reads them, stored with dataset_id = d and enabled = true, each
\* once, and the results of the record the run produces are those of these
\* expectations, one by one: a disabled expectation, a stored Profiler
\* candidate among them, is in no result
C15_OnlyEnabled ==
    /\ [](\A r \in RunIds :
            HoldsRecord(r) =>
                /\ Len(runs[r].validation.results) = Len(runs[r].expectations)
                /\ \A i \in DOMAIN runs[r].validation.results :
                      runs[r].validation.results[i].expectation_id =
                          runs[r].expectations[i].meta.expectation_id)
    /\ [][\A r \in RunIds :
            runs[r].pc = "idle" /\ runs'[r].pc = "read" =>
                \A i \in DOMAIN runs'[r].expectations :
                    LET key == runs'[r].expectations[i].meta.expectation_id
                    IN /\ key \in DOMAIN expectations
                       /\ expectations[key].dataset_id = runs'[r].dataset_id
                       /\ expectations[key].enabled
                       /\ \A j \in DOMAIN runs'[r].expectations :
                             runs'[r].expectations[j].meta.expectation_id = key => j = i]_vars
C15_Witness ==
    /\ Done(1) /\ Len(runs[1].validation.results) = 1
    /\ \E k \in DOMAIN expectations :
          /\ expectations[k].dataset_id = runs[1].dataset_id
          /\ ~expectations[k].enabled /\ expectations[k].suggested
          /\ k # runs[1].validation.results[1].expectation_id

\* the validations of a dataset made in the `days` days before the query
\* time of the answer held, and those of them with a success_percent
RunsInWindow(dataset_id, query_time, days) ==
    {k \in DOMAIN validations :
        /\ validations[k].meta.dataset_id = dataset_id
        /\ validations[k].meta.run_time >= query_time - Days(days)
        /\ validations[k].meta.run_time <= query_time}
Measured(keys) == {k \in keys : validations[k].statistics.evaluated_expectations > 0}
\* C16: each window average in an answer of statistics is the arithmetic
\* mean of success_percent over the runs of the asked dataset, and only of
\* it, made within that many days before the query time: 1, 7 and 31 days
C16_WindowAverages ==
    returned.call = "statistics" =>
        \A name \in {"1_day", "7_day", "31_day"} :
            LET days == IF name = "1_day" THEN 1 ELSE IF name = "7_day" THEN 7 ELSE 31
                window == Measured(RunsInWindow(returned.dataset_id, returned.query_time, days))
                average == returned.aggregations[name].value
            IN window # {} =>
                  /\ Len(average) = 2
                  /\ average[1] * Cardinality(window) = sum_success_percent(window) * average[2]
C16_Witness ==
    /\ returned.call = "statistics"
    /\ returned.aggregations["1_day"].value = <<100, 1>>
    /\ returned.aggregations["7_day"].value = <<50, 1>>
    /\ \E k \in DOMAIN validations :
          /\ validations[k].meta.dataset_id # returned.dataset_id
          /\ validations[k].meta.run_time >= returned.query_time - Days(1)
          /\ validations[k].statistics.evaluated_expectations > 0
          /\ validations[k].statistics.success_percent = 0

\* C17: an answer of statistics reports no average for a window without a
\* measured run of the dataset before the query time, and never 0 for it; in
\* the daily histogram a day without a run holds no average either
C17_NoSyntheticZero ==
    returned.call = "statistics" =>
        /\ \A name \in {"1_day", "7_day", "31_day"} :
              LET days == IF name = "1_day" THEN 1 ELSE IF name = "7_day" THEN 7 ELSE 31
              IN Measured(RunsInWindow(returned.dataset_id, returned.query_time, days)) = {}
                    => returned.aggregations[name].value = Null
        /\ \A d \in DOMAIN returned.validation_counts :
              LET on_day == {k \in RunsInWindow(returned.dataset_id, returned.query_time, 31) :
                                calendar_day(validations[k].meta.run_time) = d}
              IN /\ returned.validation_counts[d]["doc_count"] = Cardinality(on_day)
                 /\ Measured(on_day) = {} => returned.validation_counts[d]["1_day"].value = Null
C17_Witness ==
    /\ returned.call = "statistics"
    /\ returned.aggregations["1_day"].value = Null
    /\ returned.aggregations["7_day"].value = <<0, 1>>
    /\ \E k \in DOMAIN validations :
          /\ validations[k].meta.dataset_id = returned.dataset_id
          /\ validations[k].meta.run_time = returned.query_time - 3
    /\ \E d \in DOMAIN returned.validation_counts :
          /\ returned.validation_counts[d]["doc_count"] = 0
          /\ returned.validation_counts[d]["1_day"].value = Null

TempTableRequested(request) ==
    /\ "create_temp_table" \in DOMAIN request.batch_spec_passthrough
    /\ request.batch_spec_passthrough.create_temp_table
\* C18: a batch request asks for a temporary table exactly when it is built
\* in the profile pass for a dataset addressed by a query: never in the
\* sample and validate passes, never for a named table
C18_TempTable ==
    returned.call = "context" /\ ~returned.raised =>
        (TempTableRequested(returned.batch_request)
            <=> returned.pass = "profile" /\ IsQuery(returned.batch))

\* C19: the connection string is built with a schema in three cases, the
\* schema of the runtime parameters for SNOWFLAKE and BIGQUERY with a query,
\* the first segment of the dataset_name for BIGQUERY with a table whose name
\* has a separator, and from the datasource alone for every other engine and
\* addressing
C19_SchemaCases ==
    returned.call = "context" =>
        LET datasource == returned.datasource
            batch == returned.batch
        IN IF datasource.engine \in {"SNOWFLAKE", "BIGQUERY"} /\ IsQuery(batch)
           THEN returned.connection_string =
                    connection_string(datasource, <<batch.runtime_parameters.schema>>)
           ELSE IF datasource.engine = "BIGQUERY"
           THEN Len(batch.dataset_name) >= 2 =>
                    returned.connection_string =
                        connection_string(datasource, <<batch.dataset_name[1]>>)
           ELSE returned.connection_string = connection_string(datasource, <<>>)

\* C20: whatever the interleaving of the steps of create_dataset and
\* update_dataset requests, no two stored datasets have the same
\* datasource_name and the same dataset_name
C20_NoDuplicateDatasets ==
    \A k1, k2 \in DOMAIN datasets :
        k1 # k2 => ~(/\ datasets[k1].datasource_name = datasets[k2].datasource_name
                     /\ datasets[k1].dataset_name = datasets[k2].dataset_name)

\* a step of update_expectation(e, k) answered 200 that changes the type
Retypes(e, k) ==
    /\ update_expectation_status(e, k) = 200
    /\ expectations[k].expectation_type # e.expectation_type
\* C21: a key keeps its expectation_type as long as it is stored; when
\* update_expectation has changed the type, the new definition is stored
\* under a key never used before, the old key is no longer stored and no
\* validation with a result of the old key is left; an update that keeps the
\* type keeps the key
C21_RetypeFreshKey ==
    [][/\ \A k \in DOMAIN expectations \cap DOMAIN expectations' :
             expectations'[k].expectation_type = expectations[k].expectation_type
       /\ \A k \in DOMAIN expectations' \ DOMAIN expectations : k > issued.expectation
       /\ \A e \in Expectations(type_map, {[objective |-> 50]}, {TRUE}), k \in DOMAIN expectations :
             update_expectation(e, k) =>
                IF Retypes(e, k)
                THEN /\ k \notin DOMAIN expectations'
                     /\ \E n \in DOMAIN expectations' \ DOMAIN expectations :
                           expectations'[n] = expectation_copy(e)
                     /\ \A v \in DOMAIN validations' :
                           \A i \in DOMAIN validations'[v].results :
                               validations'[v].results[i].expectation_id # k
                ELSE update_expectation_status(e, k) = 200 => k \in DOMAIN expectations']_vars
====
